---- MODULE Spec2Model ----
(***************************************************************************)
(* express-graphql middleware (src/src/index.js): one request's lifecycle  *)
(* through graphqlHTTP's handler, the parseBody callback, the promise      *)
(* executor and the catch/then handlers.                                   *)
(***************************************************************************)
EXTENDS Integers, Sequences, FiniteSets, TLC

\* Largest number of errors validate() returns in the model.
MaxValidationErrors == 2

(***************************************************************************)
(* JavaScript values: undefined, strings, booleans and objects.            *)
(***************************************************************************)
Undef == [t |-> "undefined", s |-> ""]
Str(s) == [t |-> "string", s |-> s]
Obj(s) == [t |-> "object", s |-> s]
Bool(s) == [t |-> "boolean", s |-> s]

\* ToBoolean, as used by `||`, `&&`, `!` and `if`.
Truthy(v) ==
  CASE v.t = "undefined" -> FALSE
    [] v.t = "string" -> v.s # ""
    [] v.t = "boolean" -> v.s = "true"
    [] OTHER -> TRUE

\* a || b
Or(a, b) == IF Truthy(a) THEN a ELSE b

\* The variables strings of the model: one that is JSON, one that is not.
GoodJSON == "{\"a\":1}"
BadJSON == "{a:"

\* JSON.parse: the parsed value, or a throw.
JSONparse(s) ==
  IF s = GoodJSON
    THEN [threw |-> FALSE, value |-> Obj("a=1")]
    ELSE [threw |-> TRUE, value |-> Undef]

(***************************************************************************)
(* Errors.  An Error object carries a message, an optional status (0 when  *)
(* it has none), locations and a stack; formatError keeps message and      *)
(* locations only.                                                         *)
(***************************************************************************)
httpError(status, message) ==
  [message |-> message, status |-> status, locations |-> "", stack |-> "http-errors"]

\* An error created by the engine (graphql-js) or by the body decoder.
EngineError(message) ==
  [message |-> message, status |-> 0, locations |-> "1:1", stack |-> "graphql"]

formatError(error) == [message |-> error.message, locations |-> error.locations]

\* array.map(formatError)
RECURSIVE MapFormatError(_)
MapFormatError(errors) ==
  IF errors = <<>> THEN <<>>
  ELSE <<formatError(Head(errors))>> \o MapFormatError(Tail(errors))

\* JSON.stringify(value, null, pretty ? 2 : 0) of an object with optional
\* data and errors keys: the text holds exactly the keys the object has.
JSONstringify(value, pretty) ==
  [kind |-> "json",
   indent |-> IF pretty THEN 2 ELSE 0,
   keys |-> value.keys,
   data |-> IF "data" \in value.keys THEN value.data ELSE "",
   errors |-> IF "errors" \in value.keys THEN value.errors ELSE <<>>]

\* renderGraphiQL(): the interactive document, with what it was preset with.
renderGraphiQL(query, variables, hasResult, result) ==
  [kind |-> "graphiql", query |-> query, variables |-> variables,
   hasResult |-> hasResult,
   keys |-> IF hasResult THEN result.keys ELSE {},
   data |-> IF hasResult /\ "data" \in result.keys THEN result.data ELSE "",
   errors |-> IF hasResult /\ "errors" \in result.keys THEN result.errors ELSE <<>>]

\* A result object {data?, errors?}.
Result(keys, data, errors) == [keys |-> keys, data |-> data, errors |-> errors]

VARIABLES
  pc,           \* "start", "parseBody" (waiting for the decoder), "async", "done"
  request,      \* [method, query: URL parameters, accepts]
  options,      \* what getOptions resolves
  parseError,   \* the error the body decoder handed to the callback, if any
  data,         \* the decoded body handed to the callback
  graphQLParams,\* what getGraphQLParams returned to the callback (line 82)
  response,     \* the express response: status, headers, body, number of sends
  thrown,       \* the exceptions that left the handler uncaught
  promise,      \* state of the promise chain of lines 96-167
  result,       \* value the promise is fulfilled with
  reason,       \* error the promise is rejected with
  calls,        \* the collaborators called so far, in order
  executeCalls, \* arguments of each execute() call
  raised,       \* the exceptions the engine raised
  engine        \* what parse, validate and getOperationAST returned when called

vars == <<pc, request, options, parseError, data, graphQLParams, response,
          thrown, promise, result, reason, calls, executeCalls, raised, engine>>

(***************************************************************************)
(* The requests, decoded bodies, options and engine outcomes of the model. *)
(***************************************************************************)
Methods == {"GET", "POST", "PUT"}
UrlQueries == {Undef, Str(""), Str("{q}")}
UrlVariables == {Undef, Str(BadJSON), Str(GoodJSON)}
UrlOperationNames == {Undef, Str("A")}
UrlRaws == {Undef, Str("")}
\* request.accepts(['json', 'html']): the preferred one, or false ("none").
Accepts == {"html", "json", "none"}

Requests ==
  [method : Methods,
   query : [query : UrlQueries, variables : UrlVariables,
            operationName : UrlOperationNames, raw : UrlRaws],
   accepts : Accepts]

BodyQueries == {Undef, Str("{b}")}
BodyVariables == {Undef, Str(BadJSON), Obj("b=2")}
BodyOperationNames == {Undef, Str("B")}
BodyRaws == {Undef, Bool("false")}

\* The mappings the body decoder yields; all keys undefined is `{}`.
Bodies ==
  [query : BodyQueries, variables : BodyVariables,
   operationName : BodyOperationNames, raw : BodyRaws]

EmptyBody == [query |-> Undef, variables |-> Undef, operationName |-> Undef, raw |-> Undef]

\* The errors the body decoder yields: with a status of their own, or without.
BodyErrors ==
  {[message |-> "request entity too large", status |-> 413, locations |-> "", stack |-> "raw-body"],
   [message |-> "Unexpected token", status |-> 0, locations |-> "", stack |-> "JSON"]}

\* parseBody(request, callback): the decoder calls the callback once, with an
\* error or with a mapping; an exception of the callback is not handed back
\* to it.
parseBody == [errors |-> BodyErrors, mappings |-> Bodies]

\* What `options`, or `options(request, response)`, evaluates to.
OptionsData ==
  {[type |-> "undefined", schema |-> FALSE, graphiql |-> FALSE, pretty |-> FALSE],
   [type |-> "object", schema |-> FALSE, graphiql |-> FALSE, pretty |-> FALSE]}
  \cup [type : {"object"}, schema : {TRUE}, graphiql : BOOLEAN, pretty : BOOLEAN]

\* The validation errors validate() returns: none, one, ... MaxValidationErrors.
ValidationError(i) ==
  [message |-> IF i = 1 THEN "Cannot query field" ELSE "Unknown type",
   status |-> 0, locations |-> IF i = 1 THEN "1:2" ELSE "1:9", stack |-> "graphql"]

ValidationErrors(n) == [i \in 1..n |-> ValidationError(i)]

ValidateOutcomes ==
  {[throws |-> TRUE, errors |-> <<>>]}
  \cup {[throws |-> FALSE, errors |-> ValidationErrors(n)] : n \in 0..MaxValidationErrors}

ParseOutcomes == {"document", "throws"}

\* getOperationAST: no operation (null), an operation of some kind, or a throw.
LookupOutcomes == {"null", "query", "mutation", "subscription", "throws"}

\* execute() throws synchronously or returns a promise.
ExecuteOutcomes == {"promise", "throws"}

\* The results the promise of execute() resolves to.
ExecutionResults ==
  {Result({"data"}, "{\"test\":1}", <<>>),
   Result({"data", "errors"}, "null", <<EngineError("field error")>>),
   Result({"errors"}, "", <<EngineError("Must provide an operation.")>>),
   Result({}, "", <<>>)}

ParseThrown == EngineError("Syntax Error")
ValidateThrown == EngineError("validate threw")
LookupThrown == EngineError("getOperationAST threw")
ExecuteThrown == EngineError("execute threw")
ExecuteRejected == EngineError("execute rejected")

(***************************************************************************)
(* Helpers of index.js.                                                    *)
(***************************************************************************)
\* getOptions without the schema check.
getOptionsNoSchemaCheck(optionsData) ==
  IF optionsData.type # "object"
    THEN [threw |-> TRUE,
          error |-> [message |-> "GraphQL middleware option function must return an options object.",
                     status |-> 0, locations |-> "", stack |-> "getOptions"]]
  ELSE [threw |-> FALSE, error |-> httpError(0, "")]

\* getOptions (lines 176-192): the options, or the Error it throws.
getOptions(optionsData) ==
  IF optionsData.type # "object"
    THEN [threw |-> TRUE,
          error |-> [message |-> "GraphQL middleware option function must return an options object.",
                     status |-> 0, locations |-> "", stack |-> "getOptions"]]
  ELSE IF ~optionsData.schema
    THEN [threw |-> TRUE,
          error |-> [message |-> "GraphQL middleware options must contain a schema.",
                     status |-> 0, locations |-> "", stack |-> "getOptions"]]
  ELSE [threw |-> FALSE, error |-> httpError(0, "")]

\* getGraphQLParams looking at the body first.
getGraphQLParamsBodyFirst(req, body) ==
  LET query == Or(body.query, req.query.query)
      variables == Or(body.variables, req.query.variables)
      operationName == Or(body.operationName, req.query.operationName)
      mustParse == Truthy(variables) /\ variables.t = "string"
      parsed == IF mustParse THEN JSONparse(variables.s)
                ELSE [threw |-> FALSE, value |-> variables]
  IN  [threw |-> parsed.threw,
       error |-> httpError(400, "Variables are invalid JSON."),
       query |-> query,
       variables |-> parsed.value,
       operationName |-> operationName]

\* getGraphQLParams (lines 203-221).
getGraphQLParams(req, body) ==
  LET query == Or(req.query.query, body.query)
      variables == Or(req.query.variables, body.variables)
      operationName == Or(req.query.operationName, body.operationName)
      mustParse == Truthy(variables) /\ variables.t = "string"
      parsed == IF mustParse THEN JSONparse(variables.s)
                ELSE [threw |-> FALSE, value |-> variables]
  IN  [threw |-> parsed.threw,
       error |-> httpError(400, "Variables are invalid JSON."),
       query |-> query,
       variables |-> parsed.value,
       operationName |-> operationName]

\* The raw test inverted: shown only when a raw key is present.
canDisplayGraphiQLRawOnly(req, body) ==
  LET raw == req.query.raw # Undef \/ body.raw # Undef
  IN  raw /\ req.accepts = "html"

\* The raw test by truthiness instead of presence.
canDisplayGraphiQLTruthyRaw(req, body) ==
  LET raw == Truthy(req.query.raw) \/ Truthy(body.raw)
  IN  ~raw /\ req.accepts = "html"

\* canDisplayGraphiQL (lines 226-232).
canDisplayGraphiQL(req, body) ==
  LET raw == req.query.raw # Undef \/ body.raw # Undef
  IN  ~raw /\ req.accepts = "html"

\* response.set(...).send(...) and response.status(...)
Send(resp, contentType, body) ==
  [resp EXCEPT !.contentType = contentType, !.body = body, !.sends = @ + 1]

\* sendError answering 500 whatever the error's status.
sendErrorAlways500(resp, error, pretty) ==
  Send([resp EXCEPT !.status = 500],
       "application/json",
       JSONstringify(Result({"errors"}, "", <<formatError(error)>>), pretty))

\* sendError leaving the Content-Type unset.
sendErrorNoContentType(resp, error, pretty) ==
  Send([resp EXCEPT !.status = IF error.status # 0 THEN error.status ELSE 500],
       resp.contentType,
       JSONstringify(Result({"errors"}, "", <<formatError(error)>>), pretty))

\* sendError (lines 237-243).
sendError(resp, error, pretty) ==
  Send([resp EXCEPT !.status = IF error.status # 0 THEN error.status ELSE 500],
       "application/json",
       JSONstringify(Result({"errors"}, "", <<formatError(error)>>), pretty))

\* The method check letting PUT through.
MethodSupportedWithPut(method) == method = "GET" \/ method = "POST" \/ method = "PUT"

\* Line 64: the methods the handler goes on with.
MethodSupported(method) == method = "GET" \/ method = "POST"

\* The validation check off by one.
HasSeveralValidationErrors(errors) == Len(errors) > 1

\* Line 100: validationErrors.length > 0.
HasValidationErrors(errors) == Len(errors) > 0

\* The guard stopping mutations only.
IsMutation(operation) == operation = "mutation"

\* Line 108: operationAST && operationAST.operation !== 'query'.
IsNonQuery(operation) == operation # "null" /\ operation # "query"

\* The status taken from the absence of errors instead of the data key.
StatusOfErrors(res) == IF "errors" \in res.keys THEN 400 ELSE 200

\* Line 154: result.hasOwnProperty('data') ? 200 : 400.
StatusOf(res) == IF "data" \in res.keys THEN 200 ELSE 400

\* The catch handler returning a result with a null data key.
CatchValueWithData(error) == Result({"data", "errors"}, "null", <<error>>)

\* Line 144: the value the catch handler returns.
CatchValue(error) == Result({"errors"}, "", <<error>>)

(***************************************************************************)
(* The part of the state the handler's code changes, as one record.        *)
(***************************************************************************)
State ==
  [pc |-> pc, response |-> response, thrown |-> thrown, promise |-> promise,
   result |-> result, reason |-> reason, calls |-> calls,
   executeCalls |-> executeCalls, raised |-> raised, engine |-> engine,
   graphQLParams |-> graphQLParams]

Becomes(s) ==
  /\ pc' = s.pc
  /\ response' = s.response
  /\ thrown' = s.thrown
  /\ promise' = s.promise
  /\ result' = s.result
  /\ reason' = s.reason
  /\ calls' = s.calls
  /\ executeCalls' = s.executeCalls
  /\ raised' = s.raised
  /\ engine' = s.engine
  /\ graphQLParams' = s.graphQLParams

Called(s, name) == [s EXCEPT !.calls = Append(@, name)]

\* An exception leaves the handler (or the callback): nothing catches it.
Throw(s, error) == [s EXCEPT !.thrown = Append(@, error), !.pc = "done"]

\* The handler sends and returns.
Respond(s, resp) == [s EXCEPT !.response = resp, !.pc = "done"]

\* The engine raises inside the executor: the promise is rejected.
Reject(s, error) ==
  [s EXCEPT !.promise = "rejected", !.reason = <<error>>,
            !.raised = Append(@, error), !.pc = "async"]

\* resolve(value) with a plain value.
Resolve(s, value) == [s EXCEPT !.promise = "fulfilled", !.result = value, !.pc = "async"]

\* The executor resolving after it has sent, instead of returning.
ReturnResolved(s, resp) ==
  [s EXCEPT !.response = resp, !.promise = "fulfilled",
            !.result = Result({"errors"}, "", <<>>), !.pc = "async"]

\* Lines 113 and 120: the executor returns after sending, without resolve():
\* the promise stays pending and neither catch nor then handler runs.
ReturnUnresolved(s, resp) == [s EXCEPT !.response = resp, !.promise = "pending", !.pc = "done"]

\* execute called without the operation name.
ExecuteWithoutOperationName(s, params, eo) ==
  LET s1 == [Called(s, "execute") EXCEPT
               !.executeCalls = Append(@, [variables |-> params.variables,
                                           operationName |-> Undef])]
  IN  IF eo = "throws" THEN Reject(s1, ExecuteThrown)
      ELSE [s1 EXCEPT !.promise = "executing", !.pc = "async"]

\* Lines 133-141: resolve(execute(schema, documentAST, rootValue, variables,
\* operationName)).
Execute(s, params, eo) ==
  LET s1 == [Called(s, "execute") EXCEPT
               !.executeCalls = Append(@, [variables |-> params.variables,
                                           operationName |-> params.operationName])]
  IN  IF eo = "throws" THEN Reject(s1, ExecuteThrown)
      ELSE [s1 EXCEPT !.promise = "executing", !.pc = "async"]

\* The guard applied after the execution was started.
NonQueryOnGetAfterExecute(s, params, body, lo) ==
  LET s1 == Called(s, "execute")
  IN  IF options.graphiql /\ canDisplayGraphiQL(request, body)
        THEN ReturnUnresolved(s1,
               Send(s1.response, "text/html",
                    renderGraphiQL(params.query, params.variables, FALSE, Result({}, "", <<>>))))
        ELSE ReturnUnresolved(s1,
               sendError([s1.response EXCEPT !.allow = "POST"],
                         httpError(405,
                           IF lo = "mutation"
                             THEN "Can only perform a mutation operation from a POST request."
                             ELSE "Can only perform a subscription operation from a POST request."),
                         options.pretty))

\* The guard rendering the document without its preset.
NonQueryOnGetNoPreset(s, params, body, lo) ==
  IF options.graphiql /\ canDisplayGraphiQL(request, body)
    THEN ReturnUnresolved(s,
           Send(s.response, "text/html",
                renderGraphiQL(Undef, Undef, FALSE, Result({}, "", <<>>))))
    ELSE ReturnUnresolved(s,
           sendError([s.response EXCEPT !.allow = "POST"],
                     httpError(405,
                       IF lo = "mutation"
                         THEN "Can only perform a mutation operation from a POST request."
                         ELSE "Can only perform a subscription operation from a POST request."),
                     options.pretty))

\* Lines 105-130: the guard of GET requests, once the document validated.
NonQueryOnGet(s, params, body, lo) ==
  IF options.graphiql /\ canDisplayGraphiQL(request, body)
    THEN ReturnUnresolved(s,
           Send(s.response, "text/html",
                renderGraphiQL(params.query, params.variables, FALSE, Result({}, "", <<>>))))
    ELSE ReturnUnresolved(s,
           sendError([s.response EXCEPT !.allow = "POST"],
                     httpError(405,
                       IF lo = "mutation"
                         THEN "Can only perform a mutation operation from a POST request."
                         ELSE "Can only perform a subscription operation from a POST request."),
                     options.pretty))

\* Lines 96-143: the promise executor. po, vo, lo and eo are what parse,
\* validate, getOperationAST and execute do when called.
Executor(s, params, body, po, vo, lo, eo) ==
  LET s1 == [Called(s, "parse") EXCEPT !.engine.parse = po]
      s2 == [Called(s1, "validate") EXCEPT
               !.engine.validate = IF vo.throws THEN "throws" ELSE "returned",
               !.engine.validationErrors = vo.errors]
      s3 == [Called(s2, "getOperationAST") EXCEPT !.engine.operation = lo]
  IN  IF po = "throws" THEN Reject(s1, ParseThrown)
      ELSE IF vo.throws THEN Reject(s2, ValidateThrown)
      ELSE IF HasValidationErrors(vo.errors)
        THEN Resolve(s2, Result({"errors"}, "", vo.errors))
      ELSE IF request.method = "GET"
        THEN IF lo = "throws" THEN Reject(s3, LookupThrown)
             ELSE IF IsNonQuery(lo) THEN NonQueryOnGet(s3, params, body, lo)
             ELSE Execute(s3, params, eo)
      ELSE Execute(s2, params, eo)

\* Lines 74-168: the callback handed to parseBody.
Callback(s, err, body, po, vo, lo, eo) ==
  IF err # <<>>
    THEN Respond(s, sendError(s.response, err[1], options.pretty))
  ELSE LET params == getGraphQLParams(request, body)
           s0 == [s EXCEPT !.graphQLParams =
                    [returned |-> TRUE, query |-> params.query,
                     variables |-> params.variables,
                     operationName |-> params.operationName]]
       IN  IF params.threw THEN Throw(s, params.error)
           ELSE IF ~Truthy(params.query)
             THEN IF options.graphiql /\ canDisplayGraphiQL(request, body)
                    THEN Respond(s0, Send(s.response, "text/html",
                                          renderGraphiQL(Undef, Undef, FALSE, Result({}, "", <<>>))))
                    ELSE Throw(s0, httpError(400, "Must provide query string."))
           ELSE Executor(s0, params, body, po, vo, lo, eo)

(***************************************************************************)
(* Actions.                                                                *)
(***************************************************************************)
InitResponse ==
  \* status 0: the handler has set none, the host's default applies
  [sends |-> 0, status |-> 0, allow |-> "", contentType |-> "", body |-> [kind |-> "none"]]

Init ==
  /\ pc = "start"
  /\ request \in Requests
  /\ options \in OptionsData
  /\ parseError = <<>>
  /\ data = EmptyBody
  /\ graphQLParams = [returned |-> FALSE, query |-> Undef, variables |-> Undef,
                      operationName |-> Undef]
  /\ response = InitResponse
  /\ thrown = <<>>
  /\ promise = "none"
  /\ result = Result({}, "", <<>>)
  /\ reason = <<>>
  /\ calls = <<>>
  /\ executeCalls = <<>>
  /\ raised = <<>>
  /\ engine = [parse |-> "", validate |-> "", validationErrors |-> <<>>, operation |-> ""]

\* Lines 59-74: the middleware, up to the call of parseBody.
Middleware ==
  /\ pc = "start"
  /\ LET o == getOptions(options)
         s == Called(State, "getOptions")
     IN  Becomes(
           IF o.threw THEN Throw(s, o.error)
           ELSE IF ~MethodSupported(request.method)
             THEN Respond(s, sendError([s.response EXCEPT !.allow = "GET, POST"],
                                       httpError(405, "GraphQL only supports GET and POST requests."),
                                       options.pretty))
           ELSE [Called(s, "parseBody") EXCEPT !.pc = "parseBody"])
  /\ UNCHANGED <<request, options, parseError, data>>

\* parseBody yields an error: the callback runs with parseError.
ParseBodyFails ==
  /\ pc = "parseBody"
  /\ \E e \in parseBody.errors :
       /\ parseError' = <<e>>
       /\ Becomes(Callback(State, <<e>>, EmptyBody, "document",
                        [throws |-> FALSE, errors |-> <<>>], "null", "promise"))
  /\ UNCHANGED <<request, options, data>>

\* parseBody yields a mapping (or nothing, which defaults to {}): the callback
\* runs with data, and runs the promise executor when there is a query.
ParseBodySucceeds ==
  /\ pc = "parseBody"
  /\ \E body \in parseBody.mappings, po \in ParseOutcomes, vo \in ValidateOutcomes,
        lo \in LookupOutcomes, eo \in ExecuteOutcomes :
       /\ data' = body
       /\ Becomes(Callback(State, <<>>, body, po, vo, lo, eo))
  /\ UNCHANGED <<request, options, parseError>>

\* The promise execute() returned is fulfilled by the engine.
ExecuteResolves ==
  /\ promise = "executing"
  /\ \E r \in ExecutionResults : promise' = "fulfilled" /\ result' = r
  /\ UNCHANGED <<pc, request, options, parseError, data, graphQLParams, response,
                 thrown, reason, calls, executeCalls, raised, engine>>

\* The promise execute() returned is rejected by the engine.
ExecuteRejects ==
  /\ promise = "executing"
  /\ promise' = "rejected"
  /\ reason' = <<ExecuteRejected>>
  /\ raised' = Append(raised, ExecuteRejected)
  /\ UNCHANGED <<pc, request, options, parseError, data, graphQLParams, response,
                 thrown, result, calls, executeCalls, engine>>

\* Lines 143-145: .catch(error => ({ errors: [ error ] })).
CatchHandler ==
  /\ promise = "rejected"
  /\ promise' = "fulfilled"
  /\ result' = CatchValue(reason[1])
  /\ UNCHANGED <<pc, request, options, parseError, data, graphQLParams, response,
                 thrown, reason, calls, executeCalls, raised, engine>>

\* Lines 145-167: .then(result => ...), the post-execution step.
ThenHandler ==
  /\ promise = "fulfilled"
  /\ LET params == graphQLParams
         formatted == IF "errors" \in result.keys
                        THEN [result EXCEPT !.errors = MapFormatError(@)]
                        ELSE result
         resp == [response EXCEPT !.status = StatusOf(formatted)]
     IN  /\ result' = formatted
         /\ response' =
              IF options.graphiql /\ canDisplayGraphiQL(request, data)
                THEN Send(resp, "text/html",
                          renderGraphiQL(params.query, params.variables, TRUE, formatted))
                ELSE Send(resp, "application/json", JSONstringify(formatted, options.pretty))
  /\ promise' = "settled"
  /\ pc' = "done"
  /\ calls' = Append(calls, "then")
  /\ UNCHANGED <<request, options, parseError, data, graphQLParams, thrown,
                 reason, executeCalls, raised, engine>>

Next ==
  \/ Middleware
  \/ ParseBodyFails
  \/ ParseBodySucceeds
  \/ ExecuteResolves
  \/ ExecuteRejects
  \/ CatchHandler
  \/ ThenHandler

Spec == Init /\ [][Next]_vars

TypeOK ==
  /\ pc \in {"start", "parseBody", "async", "done"}
  /\ promise \in {"none", "pending", "executing", "rejected", "fulfilled", "settled"}
  /\ response.sends \in 0..2
  /\ Len(thrown) <= 1

(***************************************************************************)
(* Properties.                                                             *)
(***************************************************************************)
Invoked(name) == \E i \in DOMAIN calls : calls[i] = name

Count(name) == Cardinality({i \in DOMAIN calls : calls[i] = name})

\* getOptions returned: the request is being processed.
OptionsResolved == options.type = "object" /\ options.schema

\* A raw key is present in the URL parameters or in the decoded body.
RawPresent == request.query.raw # Undef \/ data.raw # Undef

\* The interactive document cannot be shown.
NoInteractive == ~options.graphiql \/ RawPresent \/ request.accepts # "html"

\* The handler sent exactly one response, with this status.
SentOnce(status) == response.sends = 1 /\ response.status = status

\* C1: a request whose method is neither GET nor POST (and whose options
\* resolved) gets a 405 with Allow "GET, POST" as soon as the handler has run,
\* and parseBody is never called for it.
C1_UnsupportedMethod ==
  (OptionsResolved /\ request.method \notin {"GET", "POST"}) =>
    /\ ~Invoked("parseBody")
    /\ pc \in {"start", "done"}
    /\ pc = "done" =>
         /\ SentOnce(405)
         /\ response.allow = "GET, POST"
         /\ thrown = <<>>

C1_Witness ==
  /\ pc = "done"
  /\ request.method = "PUT"
  /\ options.graphiql
  /\ request.accepts = "html"
  /\ Truthy(request.query.query)
  /\ SentOnce(405)

\* C2: every request whose options resolved ends having been sent a response
\* by the handler: when the handler is done, one response has gone out.
C2_EveryPathResponds ==
  (OptionsResolved /\ pc = "done") => response.sends = 1

\* C3: no request gets more than one response; once the GET guard has sent its
\* 405 or its interactive document the promise stays pending, and the then
\* handler has not run and cannot run.
C3_AtMostOneResponse ==
  /\ response.sends <= 1
  /\ promise = "pending" =>
       /\ response.sends = 1
       /\ ~Invoked("then")
       /\ ~ENABLED ThenHandler
       /\ ~ENABLED CatchHandler

C3_Witness ==
  /\ promise = "pending"
  /\ pc = "done"
  /\ response.sends = 1
  /\ response.body.kind = "graphiql"

\* C4: a GET or POST request with no query in the URL parameters nor in the
\* decoded body, for which the interactive document cannot be shown, gets a
\* 400 whose body holds the single error "Must provide query string."
\* (Stated for requests whose variables are not an invalid JSON string.)
C4_MissingQuery ==
  (/\ OptionsResolved
   /\ pc = "done"
   /\ request.method \in {"GET", "POST"}
   /\ parseError = <<>>
   /\ ~Truthy(request.query.query)
   /\ ~Truthy(data.query)
   /\ ~getGraphQLParams(request, data).threw
   /\ NoInteractive) =>
    /\ SentOnce(400)
    /\ response.body.kind = "json"
    /\ Len(response.body.errors) = 1
    /\ response.body.errors[1].message = "Must provide query string."

\* C5: a GET or POST request whose variables (URL first, then body) are a
\* string that is not JSON gets a 400 with the single error "Variables are
\* invalid JSON.", and parse, validate and execute are not called.
C5_InvalidVariables ==
  (/\ OptionsResolved
   /\ pc = "done"
   /\ request.method \in {"GET", "POST"}
   /\ parseError = <<>>
   /\ LET variables == Or(request.query.variables, data.variables)
      IN  variables.t = "string" /\ variables.s = BadJSON) =>
    /\ SentOnce(400)
    /\ response.body.kind = "json"
    /\ Len(response.body.errors) = 1
    /\ response.body.errors[1].message = "Variables are invalid JSON."
    /\ ~Invoked("parse")
    /\ ~Invoked("validate")
    /\ ~Invoked("execute")

\* C6: on a GET whose document validated and whose operation is a mutation or
\* a subscription, when the interactive document cannot be shown, the response
\* is a 405 with Allow "POST" and execute is not called.
C6_NonQueryOnGet ==
  (/\ request.method = "GET"
   /\ engine.operation \in {"mutation", "subscription"}
   /\ NoInteractive) =>
    /\ engine.validate = "returned" /\ engine.validationErrors = <<>>
    /\ pc = "done"
    /\ SentOnce(405)
    /\ response.allow = "POST"
    /\ response.contentType = "application/json"
    /\ ~Invoked("execute")
    /\ executeCalls = <<>>

C6_Witness ==
  /\ request.method = "GET"
  /\ engine.operation = "subscription"
  /\ options.graphiql
  /\ request.accepts = "html"
  /\ RawPresent
  /\ SentOnce(405)
  /\ response.allow = "POST"

\* C7: on a GET whose operation lookup returns nothing, execute is not called
\* and the response is the interactive document or a 405 with Allow "POST".
C7_UnresolvedOperationOnGet ==
  (request.method = "GET" /\ engine.operation = "null") =>
    /\ ~Invoked("execute")
    /\ pc = "done" =>
         /\ response.sends = 1
         /\ \/ response.body.kind = "graphiql"
            \/ response.status = 405 /\ response.allow = "POST"

\* C8: when validate returns errors, neither getOperationAST nor execute is
\* called, and the response is a 400 whose result has an errors key holding
\* every validation error and no data key.
C8_ValidationFailure ==
  (engine.validationErrors # <<>>) =>
    /\ ~Invoked("getOperationAST")
    /\ ~Invoked("execute")
    /\ pc # "done" => ENABLED ThenHandler
    /\ pc = "done" =>
         /\ SentOnce(400)
         /\ response.body.keys = {"errors"}
         /\ Len(response.body.errors) = Len(engine.validationErrors)
         /\ \A i \in DOMAIN engine.validationErrors :
              /\ response.body.errors[i].message = engine.validationErrors[i].message
              /\ response.body.errors[i].locations = engine.validationErrors[i].locations

C8_Witness ==
  /\ pc = "done"
  /\ Len(engine.validationErrors) = MaxValidationErrors
  /\ SentOnce(400)
  /\ response.body.kind = "json"

\* C9: after the post-execution step the status is 200 exactly when the result
\* has a data key, and 400 otherwise, whether the body is JSON or the
\* interactive document.
C9_StatusFromDataKey ==
  Invoked("then") =>
    /\ response.sends = 1
    /\ response.status \in {200, 400}
    /\ response.status = 200 <=> "data" \in result.keys
    /\ response.body.kind \in {"json", "graphiql"}
    /\ response.body.keys = result.keys

C9_Witness ==
  /\ Invoked("then")
  /\ response.status = 200
  /\ result.keys = {"data", "errors"}
  /\ result.data = "null"
  /\ response.body.kind = "graphiql"

\* C10: an exception raised by parse, validate, getOperationAST or execute
\* (thrown or rejected) does not leave the handler: the then handler is
\* reached and sends a 400 whose result holds exactly that error, formatted,
\* and no data key.
C10_EngineExceptionsCaught ==
  (raised # <<>>) =>
    /\ thrown = <<>>
    /\ Len(raised) = 1
    /\ pc # "done" => ENABLED (CatchHandler \/ ThenHandler)
    /\ pc = "done" =>
         /\ SentOnce(400)
         /\ response.body.keys = {"errors"}
         /\ response.body.errors =
              <<[message |-> raised[1].message, locations |-> raised[1].locations]>>

C10_Witness ==
  /\ pc = "done"
  /\ raised = <<ExecuteRejected>>
  /\ SentOnce(400)
  /\ Count("execute") = 1

\* No engine function has been called.
NoEngineCall ==
  /\ ~Invoked("parse")
  /\ ~Invoked("validate")
  /\ ~Invoked("getOperationAST")
  /\ ~Invoked("execute")

\* The callback ran with a decoded body, for a GET or POST whose query is
\* empty or absent in both sources, with graphiql on, no raw key and HTML
\* preferred.
EmptyQueryInteractive ==
  /\ OptionsResolved
  /\ pc = "done"
  /\ request.method \in {"GET", "POST"}
  /\ parseError = <<>>
  /\ ~Truthy(request.query.query)
  /\ ~Truthy(data.query)
  /\ options.graphiql
  /\ ~RawPresent
  /\ request.accepts = "html"

\* The interactive document with no preset, as text/html, with the status left
\* to the host, and no engine call.
EmptyInteractiveDocumentSent ==
  /\ response.sends = 1
  /\ response.status = 0
  /\ response.contentType = "text/html"
  /\ response.body.kind = "graphiql"
  /\ response.body.query = Undef
  /\ response.body.variables = Undef
  /\ ~response.body.hasResult
  /\ NoEngineCall

\* C11 as stated: every such request gets the empty interactive document.
C11_EmptyQueryInteractive_Original ==
  EmptyQueryInteractive => EmptyInteractiveDocumentSent

\* C11, amended: every such request whose variables are not a string of
\* invalid JSON gets the empty interactive document (the variables are parsed
\* at line 82, before the query is looked at).
C11_EmptyQueryInteractive ==
  (/\ EmptyQueryInteractive
   /\ LET variables == Or(request.query.variables, data.variables)
      IN  ~(variables.t = "string" /\ variables.s = BadJSON)) =>
    /\ EmptyInteractiveDocumentSent
    /\ thrown = <<>>

C11_Witness ==
  /\ EmptyQueryInteractive
  /\ request.method = "POST"
  /\ request.query.query = Str("")
  /\ request.query.variables = Str(GoodJSON)
  /\ EmptyInteractiveDocumentSent

\* C12: when a raw key is present in the URL parameters or in the decoded
\* body, whatever its value, or when graphiql is off, no response is the
\* interactive document, at any of the three negotiation points.
C12_RawOrDisabledNeverInteractive ==
  (RawPresent \/ ~options.graphiql) =>
    /\ response.body.kind # "graphiql"
    /\ response.contentType # "text/html"

C12_Witness ==
  /\ options.graphiql
  /\ request.accepts = "html"
  /\ request.query.raw = Undef
  /\ data.raw = Bool("false")
  /\ Invoked("then")
  /\ response.sends = 1
  /\ response.body.kind = "json"

\* A negotiation point was reached and chose the interactive document.
InteractiveChosen ==
  /\ graphQLParams.returned
  /\ options.graphiql
  /\ ~RawPresent
  /\ request.accepts = "html"

\* C13: a response that was sent is text/html exactly when a negotiation
\* point chose the interactive document, and application/json otherwise.
C13_ContentType ==
  (response.sends >= 1) =>
    /\ response.contentType = "text/html" <=> InteractiveChosen
    /\ response.contentType = "application/json" <=> ~InteractiveChosen
    /\ response.body.kind = "graphiql" <=> response.contentType = "text/html"
    /\ response.body.kind = "json" <=> response.contentType = "application/json"

C13_Witness ==
  /\ response.sends = 1
  /\ response.status = 405
  /\ response.allow = "POST"
  /\ options.graphiql
  /\ request.accepts = "html"
  /\ RawPresent
  /\ response.contentType = "application/json"

\* C14: on a GET whose document validated and whose operation is a mutation or
\* a subscription, with graphiql on, no raw key and HTML preferred, the
\* response is the interactive document preset with the query and the
\* variables, without a result, and execute is not called.
C14_NonQueryOnGetInteractive ==
  (/\ request.method = "GET"
   /\ engine.operation \in {"mutation", "subscription"}
   /\ options.graphiql
   /\ ~RawPresent
   /\ request.accepts = "html") =>
    /\ engine.validate = "returned" /\ engine.validationErrors = <<>>
    /\ pc = "done"
    /\ response.sends = 1
    /\ response.contentType = "text/html"
    /\ response.body.kind = "graphiql"
    /\ response.body.query = Or(request.query.query, data.query)
    /\ Truthy(response.body.query)
    /\ response.body.variables =
         (IF request.query.variables = Str(GoodJSON) THEN Obj("a=1") ELSE data.variables)
    /\ ~response.body.hasResult
    /\ ~Invoked("execute")
    /\ executeCalls = <<>>
    /\ promise = "pending"

C14_Witness ==
  /\ request.method = "GET"
  /\ engine.operation = "mutation"
  /\ response.body.kind = "graphiql"
  /\ response.body.query = Str("{b}")
  /\ response.body.variables = Obj("a=1")
  /\ ~response.body.hasResult

\* The protocol failures: the 405 of an unsupported method, the 405 of a
\* non-query operation on GET, the 400 of a missing query, the 400 of invalid
\* variables, and a body decode error.
MethodFailure == response.sends = 1 /\ response.status = 405 /\ response.allow = "GET, POST"

OperationKindFailure == response.sends = 1 /\ response.status = 405 /\ response.allow = "POST"

MissingQueryFailure ==
  thrown # <<>> /\ thrown[1].status = 400 /\ thrown[1].message = "Must provide query string."

InvalidVariablesFailure ==
  thrown # <<>> /\ thrown[1].status = 400 /\ thrown[1].message = "Variables are invalid JSON."

DecodeFailure == parseError # <<>>

\* C15 as stated: every protocol failure is decided with no engine call made.
C15_ProtocolFailuresBeforeEngine_Original ==
  (\/ MethodFailure
   \/ OperationKindFailure
   \/ MissingQueryFailure
   \/ InvalidVariablesFailure
   \/ DecodeFailure) => NoEngineCall

\* C15, amended: every protocol failure but the 405 of a non-query operation
\* on GET is decided with no engine call made; that 405 is decided after
\* parse, validate and getOperationAST were each called once, and before
\* execute.
C15_ProtocolFailuresBeforeEngine ==
  /\ (\/ MethodFailure
      \/ MissingQueryFailure
      \/ InvalidVariablesFailure
      \/ DecodeFailure) => NoEngineCall
  /\ OperationKindFailure =>
       /\ calls = <<"getOptions", "parseBody", "parse", "validate", "getOperationAST">>
       /\ ~Invoked("execute")

C15_Witness ==
  /\ OperationKindFailure
  /\ pc = "done"
  /\ Invoked("parse")
  /\ Invoked("validate")
  /\ Invoked("getOperationAST")
  /\ ~Invoked("execute")

\* A variables value once getGraphQLParams is through with it: the JSON
\* string parsed, anything else as it is.
ParsedVariables(v) == IF v = Str(GoodJSON) THEN Obj("a=1") ELSE v

\* C16 as stated: each extracted value is the URL parameter's value whenever
\* the key is present in the URL parameters, even when empty, and the body's
\* value otherwise.
C16_UrlPrecedence_Original ==
  graphQLParams.returned =>
    /\ graphQLParams.query =
         (IF request.query.query # Undef THEN request.query.query ELSE data.query)
    /\ graphQLParams.variables =
         ParsedVariables(IF request.query.variables # Undef
                           THEN request.query.variables ELSE data.variables)
    /\ graphQLParams.operationName =
         (IF request.query.operationName # Undef
            THEN request.query.operationName ELSE data.operationName)

\* C16, amended: each extracted value is the URL parameter's value whenever
\* that value is present and not empty, and the body's value otherwise.
C16_UrlPrecedence ==
  graphQLParams.returned =>
    /\ graphQLParams.query =
         (IF request.query.query \notin {Undef, Str("")}
            THEN request.query.query ELSE data.query)
    /\ graphQLParams.variables =
         ParsedVariables(IF request.query.variables \notin {Undef, Str("")}
                           THEN request.query.variables ELSE data.variables)
    /\ graphQLParams.operationName =
         (IF request.query.operationName \notin {Undef, Str("")}
            THEN request.query.operationName ELSE data.operationName)

C16_Witness ==
  /\ graphQLParams.returned
  /\ request.query.query = Str("")
  /\ data.query = Str("{b}")
  /\ graphQLParams.query = Str("{b}")
  /\ request.query.operationName = Str("A")
  /\ data.operationName = Str("B")
  /\ graphQLParams.operationName = Str("A")
  /\ Invoked("parse")

\* C17: a POST whose query parsed and validated has execute called exactly
\* once, with the resolved variables and operation name, without any operation
\* lookup, and gets no 405.
C17_PostNotGuarded ==
  (/\ request.method = "POST"
   /\ engine.parse = "document"
   /\ engine.validate = "returned"
   /\ engine.validationErrors = <<>>) =>
    /\ Count("execute") = 1
    /\ executeCalls =
         <<[variables |->
              ParsedVariables(IF Truthy(request.query.variables)
                                THEN request.query.variables ELSE data.variables),
            operationName |->
              IF Truthy(request.query.operationName)
                THEN request.query.operationName ELSE data.operationName]>>
    /\ ~Invoked("getOperationAST")
    /\ engine.operation = ""
    /\ response.status # 405
    /\ response.allow = ""

C17_Witness ==
  /\ request.method = "POST"
  /\ Count("execute") = 1
  /\ executeCalls = <<[variables |-> Obj("b=2"), operationName |-> Str("B")]>>
  /\ response.sends = 1
  /\ response.status = 200

\* C18: when the body decoder yields an error, the response is JSON with the
\* error's status, or 500 when it has none, and a body holding that one error
\* formatted; no parameter is extracted, no engine call is made and the
\* interactive document is not sent.
C18_DecodeError ==
  (parseError # <<>>) =>
    /\ pc = "done"
    /\ response.sends = 1
    /\ response.status = (IF parseError[1].status # 0 THEN parseError[1].status ELSE 500)
    /\ response.contentType = "application/json"
    /\ response.body.kind = "json"
    /\ response.body.keys = {"errors"}
    /\ response.body.errors =
         <<[message |-> parseError[1].message, locations |-> parseError[1].locations]>>
    /\ ~graphQLParams.returned
    /\ NoEngineCall
    /\ thrown = <<>>

C18_Witness ==
  /\ parseError # <<>>
  /\ parseError[1].status = 413
  /\ response.sends = 1
  /\ response.status = 413
  /\ options.graphiql
  /\ request.accepts = "html"
  /\ request.query.raw = Undef

\* C19: the options are resolved once, first; when they are not an object or
\* have no schema the handler throws the configuration error before the method
\* check, the body decoder and every engine call, and sends nothing.
C19_ConfigurationError ==
  /\ Count("getOptions") <= 1
  /\ calls # <<>> => calls[1] = "getOptions"
  /\ ~OptionsResolved =>
       /\ response = InitResponse
       /\ pc \in {"start", "done"}
       /\ pc = "done" =>
            /\ calls = <<"getOptions">>
            /\ Len(thrown) = 1
            /\ thrown[1].stack = "getOptions"
            /\ thrown[1].message =
                 (IF options.type # "object"
                    THEN "GraphQL middleware option function must return an options object."
                    ELSE "GraphQL middleware options must contain a schema.")

C19_Witness ==
  /\ pc = "done"
  /\ options.type = "object"
  /\ ~options.schema
  /\ request.method = "PUT"
  /\ response.sends = 0
  /\ thrown # <<>>

====
